---- MODULE Spec2Model ----
(***************************************************************************)
(* State-machine model of the FiscalAI backend (src/main.py).              *)
(*                                                                         *)
(* FastAPI runs every "def" handler in a thread pool, so the handlers of   *)
(* several requests interleave at every read or write of module state.     *)
(* Each worker thread is modelled with a program counter; one action is    *)
(* one uninterrupted stretch of a handler between two accesses to shared   *)
(* state.                                                                  *)
(*                                                                         *)
(* Time is counted in ticks, TicksPerSecond of them to a second, because   *)
(* datetime.utcnow() has sub-second resolution while the "exp" claim of a  *)
(* JWT is a whole number of seconds.                                       *)
(***************************************************************************)
EXTENDS Integers, Sequences, FiniteSets, TLC

\* ---------------------------------------------------------------- bounds
Workers == {"w1", "w2"}
Usernames == {"alice", "bob"}
Passwords == {"pw1", "pw2"}
Roles == {"user", "admin"}
Salts == {"s1"}
TicksPerSecond == 2
MaxAdvances == 2
MaxSuma == 100
MaxCota == 25
SumaDenominators == {1, 100, 1000}
CotaDenominators == {1, 10}
Payloads == {"d1", "d2"}
Plans == {"basic", "pro", "enterprise", "other"}

\* ------------------------------------------------------ program constants
HourSeconds == 3600

\* -------------------------------------------------------------- variables
VARIABLES
    phase,          \* "import" while the module body runs, then "serving"
    SECRET_KEY,     \* os.getenv("SECRET_KEY"): NoKey when the variable is unset
    fake_users_db,  \* dict username -> record; DOMAIN = the keys present
    clock,          \* wall clock, in ticks
    advances,       \* number of clock advances so far (bounds the model)
    pc,             \* position of each worker thread in its handler
    req,            \* the request a worker is serving
    hashed,         \* register's local hashed_password
    verified,       \* the record login read for password_context.verify
    issueTime,      \* the utcnow() value login read when building the token
    resp,           \* the response a worker has produced
    upc,            \* position of each worker in an upstream-calling handler
    ureq,           \* request of the upstream-calling handler
    attempts,       \* outbound calls made so far by the handler, in order
    uresp,          \* response of the upstream-calling handler
    tvaPc,          \* position of the calculate_tva handler
    tvaReq,         \* the TaxRequest being served
    tvaResp         \* the calculate_tva response

authVars == <<phase, SECRET_KEY, fake_users_db, clock, advances, pc, req,
              hashed, verified, issueTime, resp>>
upVars == <<upc, ureq, attempts, uresp>>
tvaVars == <<tvaPc, tvaReq, tvaResp>>
vars == <<phase, SECRET_KEY, fake_users_db, clock, advances, pc, req,
          hashed, verified, issueTime, resp, upc, ureq, attempts, uresp,
          tvaPc, tvaReq, tvaResp>>

\* ------------------------------------------------------------ data shapes
NoKey == "None"
Keys == {"k1"}

NoReq == [op |-> "none"]
NoDigest == [salt |-> "none", pw |-> "none"]
NoRecord == [absent |-> TRUE]
NoResp == [status |-> 0]
NoTaxRequest == [suma |-> [num |-> 0, den |-> 1], cota_tva |-> [num |-> 0, den |-> 1]]
NoTaxResponse == [status |-> 0, TVA |-> 0, Total |-> 0]

\* The User model: every request body of /register and /login.
User == [username : Usernames, password : Passwords, role : Roles]

\* password_context.hash: a salted digest.  The digest embeds its salt and
\* is determined by the salt and the plaintext.
PasswordHash(plain, salt) == [salt |-> salt, pw |-> plain]

\* password_context.verify: recompute with the digest's salt and compare.
PasswordVerify(plain, digest) == PasswordHash(plain, digest.salt) = digest

\* The dict literal register stores.
NewRecord(hashed_password, role) ==
    [password |-> hashed_password, role |-> role, twofa |-> FALSE]

\* fake_users_db[username] = record: insert or overwrite one key.
StoreRecordMutKeepRole(db, username, record) ==
    [u \in DOMAIN db \cup {username} |->
        IF u = username
        THEN IF u \in DOMAIN db
             THEN [record EXCEPT !.role = db[u].role]
             ELSE record
        ELSE db[u]]
StoreRecord(db, username, record) ==
    [u \in DOMAIN db \cup {username} |->
        IF u = username THEN record ELSE db[u]]

\* "user.username not in fake_users_db" negated.
InDbMutAlways(db, username) == TRUE
InDb(db, username) == username \in DOMAIN db

\* calendar.timegm(dt.utctimetuple()), as jwt.encode applies it to a
\* datetime-valued "exp": whole seconds, the fraction dropped.
timegm(ticks) == ticks \div TicksPerSecond

\* datetime.utcnow() + timedelta(hours=1), encoded as the "exp" claim.
TokenExpMutNoTtl(now) == timegm(now)
TokenExp(now) == timegm(now + HourSeconds * TicksPerSecond)

\* The claims set login signs; sig stands for the HS256 signature, which
\* is determined by the key.
TokenRole(db, user) == db[user.username].role

Token(sub, role, exp, key) == [sub |-> sub, role |-> role, exp |-> exp, sig |-> key]

\* Responses.
Registered == [status |-> 200, msg |-> "User successfully registered"]
InvalidCredentials == [status |-> 400, detail |-> "Invalid credentials"]
ServerError == [status |-> 500, detail |-> "Internal Server Error"]
AccessToken(token) == [status |-> 200, access_token |-> token]

IsToken(r) == r.status = 200 /\ "access_token" \in DOMAIN r

\* ------------------------------------------------------------------- Init
Init ==
    /\ phase = "import"
    /\ SECRET_KEY = NoKey
    /\ fake_users_db = << >>
    /\ clock = 0
    /\ advances = 0
    /\ pc = [w \in Workers |-> "idle"]
    /\ req = [w \in Workers |-> NoReq]
    /\ hashed = [w \in Workers |-> NoDigest]
    /\ verified = [w \in Workers |-> NoRecord]
    /\ issueTime = [w \in Workers |-> 0]
    /\ resp = [w \in Workers |-> NoResp]
    /\ upc = [w \in Workers |-> "idle"]
    /\ ureq = [w \in Workers |-> NoReq]
    /\ attempts = [w \in Workers |-> << >>]
    /\ uresp = [w \in Workers |-> NoResp]
    /\ tvaPc = "idle"
    /\ tvaReq = NoTaxRequest
    /\ tvaResp = NoTaxResponse

\* ------------------------------------------------------ module import
\* Lines 19-34: the module body reads the environment and builds the app.
\* Nothing checks the value read; the application then serves.
LoadConfig ==
    /\ phase = "import"
    /\ \E k \in Keys \cup {NoKey} : SECRET_KEY' = k
    /\ phase' = "serving"
    /\ UNCHANGED <<fake_users_db, clock, advances, pc, req, hashed, verified,
                   issueTime, resp>>
    /\ UNCHANGED upVars /\ UNCHANGED tvaVars

\* The wall clock moves on between any two steps.
ClockSteps == {1, HourSeconds * TicksPerSecond}
Advance ==
    /\ advances < MaxAdvances
    /\ \E d \in ClockSteps : clock' = clock + d
    /\ advances' = advances + 1
    /\ UNCHANGED <<phase, SECRET_KEY, fake_users_db, pc, req, hashed, verified,
                   issueTime, resp>>
    /\ UNCHANGED upVars /\ UNCHANGED tvaVars

\* ------------------------------------------------------------- /register
ReceiveRegister(w) ==
    /\ phase = "serving"
    /\ pc[w] = "idle"
    /\ \E user \in User : req' = [req EXCEPT ![w] = [op |-> "register", user |-> user]]
    /\ pc' = [pc EXCEPT ![w] = "r_hash"]
    /\ UNCHANGED <<phase, SECRET_KEY, fake_users_db, clock, advances, hashed,
                   verified, issueTime, resp>>
    /\ UNCHANGED upVars /\ UNCHANGED tvaVars

\* Line 63: hashed_password = password_context.hash(user.password)
RegisterHash(w) ==
    /\ pc[w] = "r_hash"
    /\ \E salt \in Salts :
          hashed' = [hashed EXCEPT ![w] = PasswordHash(req[w].user.password, salt)]
    /\ pc' = [pc EXCEPT ![w] = "r_store"]
    /\ UNCHANGED <<phase, SECRET_KEY, fake_users_db, clock, advances, req,
                   verified, issueTime, resp>>
    /\ UNCHANGED upVars /\ UNCHANGED tvaVars

\* Lines 64-65: one dict store, then the response.
RegisterStore(w) ==
    /\ pc[w] = "r_store"
    /\ fake_users_db' = StoreRecord(fake_users_db, req[w].user.username,
                                    NewRecord(hashed[w], req[w].user.role))
    /\ resp' = [resp EXCEPT ![w] = Registered]
    /\ pc' = [pc EXCEPT ![w] = "done"]
    /\ UNCHANGED <<phase, SECRET_KEY, clock, advances, req, hashed, verified,
                   issueTime>>
    /\ UNCHANGED upVars /\ UNCHANGED tvaVars

\* ---------------------------------------------------------------- /login
ReceiveLogin(w) ==
    /\ phase = "serving"
    /\ pc[w] = "idle"
    /\ \E user \in User : req' = [req EXCEPT ![w] = [op |-> "login", user |-> user]]
    /\ pc' = [pc EXCEPT ![w] = "l_check"]
    /\ UNCHANGED <<phase, SECRET_KEY, fake_users_db, clock, advances, hashed,
                   verified, issueTime, resp>>
    /\ UNCHANGED upVars /\ UNCHANGED tvaVars

\* Line 69, left operand of "or": user.username not in fake_users_db
LoginCheck(w) ==
    /\ pc[w] = "l_check"
    /\ IF ~InDb(fake_users_db, req[w].user.username)
       THEN /\ resp' = [resp EXCEPT ![w] = InvalidCredentials]
            /\ pc' = [pc EXCEPT ![w] = "done"]
       ELSE /\ pc' = [pc EXCEPT ![w] = "l_verify"]
            /\ UNCHANGED resp
    /\ UNCHANGED <<phase, SECRET_KEY, fake_users_db, clock, advances, req,
                   hashed, verified, issueTime>>
    /\ UNCHANGED upVars /\ UNCHANGED tvaVars

\* Line 69, right operand: read fake_users_db[username]["password"] and
\* verify the presented password against it.  A missing key is a KeyError.
LoginVerify(w) ==
    /\ pc[w] = "l_verify"
    /\ LET u == req[w].user.username IN
       IF u \notin DOMAIN fake_users_db
       THEN /\ resp' = [resp EXCEPT ![w] = ServerError]
            /\ pc' = [pc EXCEPT ![w] = "done"]
            /\ UNCHANGED verified
       ELSE /\ verified' = [verified EXCEPT ![w] = fake_users_db[u]]
            /\ IF ~PasswordVerify(req[w].user.password, fake_users_db[u].password)
               THEN /\ resp' = [resp EXCEPT ![w] = InvalidCredentials]
                    /\ pc' = [pc EXCEPT ![w] = "done"]
               ELSE /\ pc' = [pc EXCEPT ![w] = "l_issue"]
                    /\ UNCHANGED resp
    /\ UNCHANGED <<phase, SECRET_KEY, fake_users_db, clock, advances, req,
                   hashed, issueTime>>
    /\ UNCHANGED upVars /\ UNCHANGED tvaVars

\* Lines 71-72: read fake_users_db[username]["role"] again, read the clock,
\* sign.  jwt.encode raises TypeError on a key that is None.
LoginIssue(w) ==
    /\ pc[w] = "l_issue"
    /\ LET u == req[w].user.username IN
       IF u \notin DOMAIN fake_users_db \/ SECRET_KEY = NoKey
       THEN /\ resp' = [resp EXCEPT ![w] = ServerError]
            /\ UNCHANGED issueTime
       ELSE /\ issueTime' = [issueTime EXCEPT ![w] = clock]
            /\ resp' = [resp EXCEPT ![w] =
                  AccessToken(Token(u, TokenRole(fake_users_db, req[w].user),
                                    TokenExp(clock), SECRET_KEY))]
    /\ pc' = [pc EXCEPT ![w] = "done"]
    /\ UNCHANGED <<phase, SECRET_KEY, fake_users_db, clock, advances, req,
                   hashed, verified>>
    /\ UNCHANGED upVars /\ UNCHANGED tvaVars

\* The response is sent and the thread returns to the pool.
Respond(w) ==
    /\ pc[w] = "done"
    /\ pc' = [pc EXCEPT ![w] = "idle"]
    /\ req' = [req EXCEPT ![w] = NoReq]
    /\ hashed' = [hashed EXCEPT ![w] = NoDigest]
    /\ verified' = [verified EXCEPT ![w] = NoRecord]
    /\ issueTime' = [issueTime EXCEPT ![w] = 0]
    /\ resp' = [resp EXCEPT ![w] = NoResp]
    /\ UNCHANGED <<phase, SECRET_KEY, fake_users_db, clock, advances>>
    /\ UNCHANGED upVars /\ UNCHANGED tvaVars

Next ==
    \/ LoadConfig
    \/ \E w \in Workers : ReceiveRegister(w)
    \/ \E w \in Workers : RegisterHash(w)
    \/ \E w \in Workers : RegisterStore(w)
    \/ \E w \in Workers : ReceiveLogin(w)
    \/ \E w \in Workers : LoginCheck(w)
    \/ \E w \in Workers : LoginVerify(w)
    \/ \E w \in Workers : LoginIssue(w)
    \/ \E w \in Workers : Respond(w)

\* The credential store and the login flow under every interleaving of the
\* worker threads.
Spec == Init /\ [][Next]_vars

\* The same, with the wall clock moving.
NextClock == Next \/ Advance

SpecClock == Init /\ [][NextClock]_vars

\* ======================================================== /calculate_tva
\* TaxRequest.suma and TaxRequest.cota_tva are Python floats: IEEE-754
\* binary64.  A float is held exactly, as [m, e] standing for m * 2^e with
\* m a natural number below 2^MantissaBits, and every operation rounds its
\* exact result to the nearest such number, a tie to the even mantissa.
\* The mantissa is a natural number of any size, held as its sequence of
\* digits in base Base, the least significant first, the empty sequence
\* for zero.
MantissaBits == 53
Base == 2^15

RECURSIVE StripZeros(_)
StripZeros(a) ==
    IF a = << >> THEN a
    ELSE IF a[Len(a)] = 0 THEN StripZeros(SubSeq(a, 1, Len(a) - 1))
    ELSE a

RECURSIVE BigOfInt(_)
BigOfInt(n) == IF n = 0 THEN << >> ELSE <<n % Base>> \o BigOfInt(n \div Base)

RECURSIVE IntOfBig(_)
IntOfBig(a) == IF a = << >> THEN 0 ELSE Head(a) + Base * IntOfBig(Tail(a))

RECURSIVE AddCarry(_, _, _)
AddCarry(a, b, carry) ==
    IF a = << >> /\ b = << >>
    THEN BigOfInt(carry)
    ELSE LET x == IF a = << >> THEN 0 ELSE Head(a)
             y == IF b = << >> THEN 0 ELSE Head(b)
             sum == x + y + carry
         IN  <<sum % Base>>
                \o AddCarry(IF a = << >> THEN a ELSE Tail(a),
                            IF b = << >> THEN b ELSE Tail(b),
                            sum \div Base)

BigAdd(a, b) == StripZeros(AddCarry(a, b, 0))

\* a * k for 0 <= k <= Base.
RECURSIVE MulSmallCarry(_, _, _)
MulSmallCarry(a, k, carry) ==
    IF a = << >>
    THEN BigOfInt(carry)
    ELSE LET p == Head(a) * k + carry
         IN  <<p % Base>> \o MulSmallCarry(Tail(a), k, p \div Base)

BigMulSmall(a, k) == StripZeros(MulSmallCarry(a, k, 0))

RECURSIVE BigMul(_, _)
BigMul(a, b) ==
    IF a = << >> \/ b = << >> THEN << >>
    ELSE LET rest == BigMul(a, Tail(b))
         IN  BigAdd(BigMulSmall(a, Head(b)),
                    IF rest = << >> THEN rest ELSE <<0>> \o rest)

\* Quotient and remainder of a by k, 1 <= k <= Base.
RECURSIVE DivSmallRem(_, _)
DivSmallRem(a, k) ==
    IF a = << >>
    THEN [q |-> << >>, r |-> 0]
    ELSE LET high == DivSmallRem(Tail(a), k)
             cur == high.r * Base + Head(a)
         IN  [q |-> <<cur \div k>> \o high.q, r |-> cur % k]

RECURSIVE IntBitLen(_)
IntBitLen(n) == IF n = 0 THEN 0 ELSE 1 + IntBitLen(n \div 2)

BigBitLen(a) ==
    IF a = << >> THEN 0 ELSE (Len(a) - 1) * 15 + IntBitLen(a[Len(a)])

\* a * 2^k
ShiftLeft(a, k) ==
    IF a = << >> THEN a
    ELSE [i \in 1..(k \div 15) |-> 0] \o BigMulSmall(a, 2^(k % 15))

\* floor(a / 2^k), and whether the division is exact.
FloorShift(a, k) ==
    LET limbs == k \div 15
        dropped == IF limbs < Len(a) THEN limbs ELSE Len(a)
        d == DivSmallRem(SubSeq(a, dropped + 1, Len(a)), 2^(k % 15))
    IN  [q |-> StripZeros(d.q),
         exact |-> d.r = 0 /\ \A i \in 1..dropped : a[i] = 0]

\* a / 2^k rounded to the nearest natural number, a tie to the even one;
\* k >= 1.
RoundShift(a, k) ==
    LET upper == FloorShift(a, k - 1)
        half == DivSmallRem(upper.q, 2)
        floor == StripZeros(half.q)
        odd == floor # << >> /\ floor[1] % 2 = 1
    IN  IF half.r = 1 /\ (~upper.exact \/ odd)
        THEN BigAdd(floor, <<1>>)
        ELSE floor

\* The float nearest to n * 2^e (no overflow or underflow inside the
\* bounds of the model).
RoundToFloat(n, e) ==
    LET len == BigBitLen(n)
        k == len - MantissaBits
    IN  IF len <= MantissaBits THEN [m |-> n, e |-> e]
        ELSE LET r == RoundShift(n, k)
             IN  IF BigBitLen(r) > MantissaBits
                 THEN [m |-> FloorShift(r, 1).q, e |-> e + k + 1]
                 ELSE [m |-> r, e |-> e + k]

\* x / d for a float x and an integer d, 1 <= d <= 1000.  The quotient
\* is taken with 64 more bits than x, the last bit recording an inexact
\* division, and then rounded.
FloatDivInt(x, d) ==
    IF x.m = << >> THEN x
    ELSE LET dv == DivSmallRem(ShiftLeft(x.m, 64), d)
             q == BigAdd(BigMulSmall(StripZeros(dv.q), 2),
                         IF dv.r = 0 THEN << >> ELSE <<1>>)
         IN  RoundToFloat(q, x.e - 65)

FloatMul(x, y) == RoundToFloat(BigMul(x.m, y.m), x.e + y.e)

FloatAdd(x, y) ==
    IF x.m = << >> THEN y
    ELSE IF y.m = << >> THEN x
    ELSE LET e == IF x.e < y.e THEN x.e ELSE y.e
         IN  RoundToFloat(BigAdd(ShiftLeft(x.m, x.e - e),
                                 ShiftLeft(y.m, y.e - e)), e)

\* The float a JSON number num/den (den a power of ten) is parsed to: the
\* float nearest to the decimal value.
FloatOfDecimal(dec) == FloatDivInt([m |-> BigOfInt(dec.num), e |-> 0], dec.den)

\* round(x, 2) for x >= 0, in hundredths: the exact binary value of x
\* rounded to 2 decimals, a tie of that exact value to the even hundredth.
Round2(x) ==
    LET n == BigMulSmall(x.m, 100)
    IN  IF x.e >= 0
        THEN IntOfBig(ShiftLeft(n, x.e))
        ELSE IntOfBig(RoundShift(n, 0 - x.e))

\* request.suma * (request.cota_tva / 100)
TvaOfMutNoPercent(suma, cota_tva) == FloatMul(suma, cota_tva)
TvaOf(suma, cota_tva) == FloatMul(suma, FloatDivInt(cota_tva, 100))

\* request.suma + tva
TotalOf(suma, tva) == FloatAdd(suma, tva)

\* The request bodies: decimal numbers num/den.
Decimal(num, den) == [num |-> num, den |-> den]
SumaValues == {Decimal(n, d) : n \in 0..MaxSuma, d \in SumaDenominators}
CotaValues == {Decimal(n, d) : n \in 0..MaxCota, d \in CotaDenominators}

\* A TaxRequest arrives.
ReceiveTva ==
    /\ phase = "serving"
    /\ tvaPc = "idle"
    /\ \E suma \in SumaValues, cota_tva \in CotaValues :
          tvaReq' = [suma |-> suma, cota_tva |-> cota_tva]
    /\ tvaPc' = "t_calc"
    /\ UNCHANGED tvaResp
    /\ UNCHANGED authVars /\ UNCHANGED upVars

\* Lines 74-78.
calculate_tva ==
    /\ tvaPc = "t_calc"
    /\ LET suma == FloatOfDecimal(tvaReq.suma)
           tva == TvaOf(suma, FloatOfDecimal(tvaReq.cota_tva))
           total == TotalOf(suma, tva)
       IN  tvaResp' = [status |-> 200, TVA |-> Round2(tva),
                       Total |-> Round2(total)]
    /\ tvaPc' = "done"
    /\ UNCHANGED tvaReq
    /\ UNCHANGED authVars /\ UNCHANGED upVars

\* The response is sent.
TvaRespond ==
    /\ tvaPc = "done"
    /\ tvaPc' = "idle"
    /\ tvaReq' = NoTaxRequest
    /\ tvaResp' = NoTaxResponse
    /\ UNCHANGED authVars /\ UNCHANGED upVars

NextTva == LoadConfig \/ ReceiveTva \/ calculate_tva \/ TvaRespond

SpecTva == Init /\ [][NextTva]_vars

\* ================================================ upstream-calling handlers
\* What an outbound call can do: return a success response, return a
\* response with an error status, or raise.
Outcomes == {"ok", "http_error", "exception"}

RaisedMutNever(outcome) == FALSE
Raised(outcome) == outcome = "exception"

Call(target, arg, outcome) == [target |-> target, arg |-> arg, outcome |-> outcome]

\* The {"error": ...} body a handler returns (HTTP 200).
ErrorBody(message) == [status |-> 200, error |-> message]
\* raise HTTPException(status_code=500, detail=...)
Http500(message) == [status |-> 500, detail |-> message]

\* ---------------------------------------------------------- /submit_anaf
ReceiveAnaf(w) ==
    /\ phase = "serving"
    /\ upc[w] = "idle"
    /\ \E data \in Payloads :
          ureq' = [ureq EXCEPT ![w] = [op |-> "submit_anaf", data |-> data]]
    /\ upc' = [upc EXCEPT ![w] = "a_post"]
    /\ UNCHANGED <<attempts, uresp>>
    /\ UNCHANGED authVars /\ UNCHANGED tvaVars

\* The response of submit_anaf after a failed call (line 103).
AnafFailureMutRaise(message) == Http500(message)
AnafFailure(message) == ErrorBody(message)

\* Lines 98-103.  The body of the upstream response may fail to parse as
\* JSON, in which case response.json() raises inside the same try.
submit_anaf(w) ==
    /\ upc[w] = "a_post"
    /\ \E outcome \in Outcomes, bodyIsJson \in BOOLEAN :
          /\ attempts' = [attempts EXCEPT ![w] =
                            Append(@, Call("anaf", ureq[w].data, outcome))]
          /\ uresp' = [uresp EXCEPT ![w] =
                IF Raised(outcome) \/ ~bodyIsJson
                THEN AnafFailure("Error connecting to ANAF")
                ELSE [status |-> 200, upstream |-> outcome, echo |-> ureq[w].data]]
    /\ upc' = [upc EXCEPT ![w] = "done"]
    /\ UNCHANGED ureq
    /\ UNCHANGED authVars /\ UNCHANGED tvaVars

\* ------------------------------------------------------------ /subscribe
ReceiveSubscribe(w) ==
    /\ phase = "serving"
    /\ upc[w] = "idle"
    /\ \E plan \in Plans :
          ureq' = [ureq EXCEPT ![w] = [op |-> "subscribe", plan |-> plan]]
    /\ upc' = [upc EXCEPT ![w] = "s_create"]
    /\ UNCHANGED <<attempts, uresp>>
    /\ UNCHANGED authVars /\ UNCHANGED tvaVars

\* plan_prices.get(request.plan, 100) * 100
PlanAmount(plan) ==
    (CASE plan = "basic" -> 100
       [] plan = "pro" -> 200
       [] plan = "enterprise" -> 500
       [] OTHER -> 100) * 100

\* Lines 107-127.  The payment SDK raises on every failure, transport or
\* API error alike.
subscribe(w) ==
    /\ upc[w] = "s_create"
    /\ \E outcome \in {"ok", "exception"} :
          /\ attempts' = [attempts EXCEPT ![w] =
                Append(@, Call("stripe", PlanAmount(ureq[w].plan), outcome))]
          /\ uresp' = [uresp EXCEPT ![w] =
                IF Raised(outcome)
                THEN Http500("payment provider error")
                ELSE [status |-> 200, session_id |-> "cs_1"]]
    /\ upc' = [upc EXCEPT ![w] = "done"]
    /\ UNCHANGED ureq
    /\ UNCHANGED authVars /\ UNCHANGED tvaVars

\* ---------------------------------------------------- /send_notification
ReceiveNotification(w) ==
    /\ phase = "serving"
    /\ upc[w] = "idle"
    /\ \E message \in Payloads :
          ureq' = [ureq EXCEPT ![w] = [op |-> "send_notification", message |-> message]]
    /\ upc' = [upc EXCEPT ![w] = "n_email"]
    /\ UNCHANGED <<attempts, uresp>>
    /\ UNCHANGED authVars /\ UNCHANGED tvaVars

NotificationSent == [status |-> 200, msg |-> "Notification sent successfully"]

\* One requests.post of the try block: a raise leaves the block for the
\* except clause (lines 136-138), a return goes on to the next statement.
NotifyPost(w, here, channel, next) ==
    /\ upc[w] = here
    /\ \E outcome \in Outcomes :
          /\ attempts' = [attempts EXCEPT ![w] =
                            Append(@, Call(channel, ureq[w].message, outcome))]
          /\ IF Raised(outcome)
             THEN /\ uresp' = [uresp EXCEPT ![w] = ErrorBody("Error sending notification")]
                  /\ upc' = [upc EXCEPT ![w] = "done"]
             ELSE IF next = "done"
             THEN /\ uresp' = [uresp EXCEPT ![w] = NotificationSent]
                  /\ upc' = [upc EXCEPT ![w] = "done"]
             ELSE /\ upc' = [upc EXCEPT ![w] = next]
                  /\ UNCHANGED uresp
    /\ UNCHANGED ureq
    /\ UNCHANGED authVars /\ UNCHANGED tvaVars

\* Line 132.
SendEmail(w) == NotifyPost(w, "n_email", "email", "n_sms")
\* Line 133.
SendSms(w) == NotifyPost(w, "n_sms", "sms", "n_whatsapp")
\* Lines 134-135.
SendWhatsapp(w) == NotifyPost(w, "n_whatsapp", "whatsapp", "done")

\* The response is sent and the thread returns to the pool.
UpstreamRespond(w) ==
    /\ upc[w] = "done"
    /\ upc' = [upc EXCEPT ![w] = "idle"]
    /\ ureq' = [ureq EXCEPT ![w] = NoReq]
    /\ attempts' = [attempts EXCEPT ![w] = << >>]
    /\ uresp' = [uresp EXCEPT ![w] = NoResp]
    /\ UNCHANGED authVars /\ UNCHANGED tvaVars

NextUpstream ==
    \/ LoadConfig
    \/ \E w \in Workers : ReceiveAnaf(w)
    \/ \E w \in Workers : submit_anaf(w)
    \/ \E w \in Workers : ReceiveSubscribe(w)
    \/ \E w \in Workers : subscribe(w)
    \/ \E w \in Workers : ReceiveNotification(w)
    \/ \E w \in Workers : SendEmail(w)
    \/ \E w \in Workers : SendSms(w)
    \/ \E w \in Workers : SendWhatsapp(w)
    \/ \E w \in Workers : UpstreamRespond(w)

SpecUpstream == Init /\ [][NextUpstream]_vars

\* ================================================================ claims
\* Verification of a presented token, as the Session Issuer contract
\* states it: the signature matches the active key and now < expires_at.
TokenValid(token, now) ==
    /\ token.sig = SECRET_KEY
    /\ now < token.exp * TicksPerSecond

LoginDone(w) == pc[w] = "done" /\ req[w].op = "login"
RegisterDone(w) == pc[w] = "done" /\ req[w].op = "register"
HoldsToken(w) == LoginDone(w) /\ IsToken(resp[w])
LookedUp(w) == "password" \in DOMAIN verified[w]

\* C1: a login for a username that is not in the store (never registered,
\* since records are never deleted) ends with the 400 Invalid credentials
\* response, which carries no access token, whatever password and role the
\* request carries and whatever else has been registered.
C1_UnregisteredLoginFails ==
    \A w \in Workers :
        (LoginDone(w) /\ req[w].user.username \notin DOMAIN fake_users_db)
            => resp[w] = InvalidCredentials

C1_Witness ==
    \E w \in Workers :
        /\ LoginDone(w)
        /\ req[w].user.username \notin DOMAIN fake_users_db
        /\ fake_users_db # << >>
        /\ resp[w] = InvalidCredentials

\* C2: after a (re-)registration the most recently registered password of
\* a username, and only it, is accepted: a login that looked the username
\* up ends with a token when the presented password is the one of the
\* record it found, and with Invalid credentials otherwise; every register
\* call ends with the success message.
C2_LatestPasswordAccepted ==
    \A w \in Workers :
        /\ RegisterDone(w) => resp[w] = Registered
        /\ (LoginDone(w) /\ LookedUp(w)) =>
              IF req[w].user.password = verified[w].password.pw
              THEN IsToken(resp[w])
              ELSE resp[w] = InvalidCredentials

\* C3: a login succeeds exactly when the username is registered and the
\* presented password matches the stored digest; the token then carries
\* sub = the username and role = the role of the stored record, never the
\* role field of the login request.
C3_LoginIffCredentialsMatch ==
    \A w \in Workers :
        LoginDone(w) =>
            /\ IsToken(resp[w]) <=>
                  (LookedUp(w) /\ verified[w].password.pw = req[w].user.password)
            /\ IsToken(resp[w]) =>
                  /\ resp[w].access_token.sub = req[w].user.username
                  /\ resp[w].access_token.role = verified[w].role

\* C4 as stated: the expiry of an issued token is exactly one hour after
\* the instant of issue.
C4_ExpiryExactlyOneHour ==
    \A w \in Workers :
        HoldsToken(w) =>
            resp[w].access_token.exp * TicksPerSecond
                = issueTime[w] + HourSeconds * TicksPerSecond

\* C4 amended: the expiry of an issued token is one hour after the instant
\* of issue truncated to whole seconds; the token is valid at the instant
\* of issue and at every later time before the expiry, and invalid once
\* the clock has reached the expiry.
C4_ExpiryOneHourWholeSeconds ==
    \A w \in Workers :
        HoldsToken(w) =>
            LET token == resp[w].access_token
                expiry == ((issueTime[w] \div TicksPerSecond) + HourSeconds)
                              * TicksPerSecond
            IN  /\ token.exp * TicksPerSecond = expiry
                /\ TokenValid(token, issueTime[w])
                /\ clock >= issueTime[w]
                /\ TokenValid(token, clock) <=> clock < expiry

C4_Witness ==
    \E w \in Workers :
        /\ HoldsToken(w)
        /\ issueTime[w] % TicksPerSecond # 0
        /\ ~TokenValid(resp[w].access_token, clock)

\* C5: with the signing secret absent the process does not start: the
\* application never serves a login request and never issues a token while
\* the key is unset.
C5_RefusesToStartWithoutKey ==
    (phase = "serving" /\ SECRET_KEY = NoKey) =>
        \A w \in Workers : req[w].op # "login" /\ ~IsToken(resp[w])

\* C9: two concurrent registrations of one username are last-write-wins.
\* When both have finished, the store holds for that username the complete
\* record (digest, role, second-factor flag false) of one of the two; and a
\* step changes the record of a username only by a register of that
\* username storing its own complete record, so other records stay.
C9_BothDone ==
    \A w1, w2 \in Workers :
        (w1 # w2 /\ RegisterDone(w1) /\ RegisterDone(w2)
            /\ req[w1].user.username = req[w2].user.username) =>
        LET u == req[w1].user.username IN
        /\ u \in DOMAIN fake_users_db
        /\ \E w \in {w1, w2} :
              fake_users_db[u] = [password |-> hashed[w],
                                  role |-> req[w].user.role,
                                  twofa |-> FALSE]

C9_RecordChanged(u) ==
    \/ (u \in DOMAIN fake_users_db) # (u \in DOMAIN fake_users_db')
    \/ /\ u \in DOMAIN fake_users_db
       /\ u \in DOMAIN fake_users_db'
       /\ fake_users_db[u] # fake_users_db'[u]

C9_Step ==
    \A u \in Usernames :
        C9_RecordChanged(u) =>
            \E w \in Workers :
                /\ pc[w] = "r_store"
                /\ pc'[w] = "done"
                /\ req[w].user.username = u
                /\ u \in DOMAIN fake_users_db'
                /\ fake_users_db'[u] = [password |-> hashed[w],
                                        role |-> req[w].user.role,
                                        twofa |-> FALSE]

C9_LastWriteWins == [] C9_BothDone /\ [][C9_Step]_vars

C9_Witness ==
    \E w1, w2 \in Workers :
        /\ w1 # w2 /\ RegisterDone(w1) /\ RegisterDone(w2)
        /\ req[w1].user.username = req[w2].user.username
        /\ req[w1].user.password # req[w2].user.password
        /\ req[w1].user.role # req[w2].user.role
        /\ fake_users_db[req[w1].user.username].role = req[w2].user.role
        /\ \E u \in DOMAIN fake_users_db : u # req[w1].user.username

\* C10: the role in an issued token is the role of the record whose
\* password the login verified.
C10_TokenRoleOfVerifiedRecord ==
    \A w \in Workers :
        HoldsToken(w) => resp[w].access_token.role = verified[w].role

\* C6: send_notification posts to email, then SMS, then the messaging app,
\* in that order; a channel is attempted only if no earlier post raised;
\* a raised post ends the handler with the {error} body (HTTP 200, not a
\* raised error); the success message is returned only after all three
\* posts were made and none raised.
Channels == <<"email", "sms", "whatsapp">>

Notifying(w) == ureq[w].op = "send_notification"

C6_FixedOrderAbortOnFirstFailure ==
    \A w \in Workers :
        Notifying(w) =>
            /\ Len(attempts[w]) <= 3
            /\ \A i \in 1..Len(attempts[w]) :
                  /\ attempts[w][i].target = Channels[i]
                  /\ \A j \in 1..(i - 1) : attempts[w][j].outcome # "exception"
            /\ (upc[w] = "done"
                  /\ \E i \in 1..Len(attempts[w]) : attempts[w][i].outcome = "exception")
                 => (uresp[w].status = 200 /\ "error" \in DOMAIN uresp[w])
            /\ uresp[w] = NotificationSent =>
                  /\ Len(attempts[w]) = 3
                  /\ \A i \in 1..3 : attempts[w][i].outcome # "exception"
            /\ upc[w] = "done" =>
                  (uresp[w] = NotificationSent \/ "error" \in DOMAIN uresp[w])

C6_Witness ==
    \E w \in Workers :
        /\ Notifying(w)
        /\ upc[w] = "done"
        /\ Len(attempts[w]) = 2
        /\ attempts[w][1].outcome = "http_error"
        /\ attempts[w][2].outcome = "exception"
        /\ "error" \in DOMAIN uresp[w]

UpstreamFailed(w) ==
    /\ upc[w] = "done"
    /\ attempts[w] # << >>
    /\ attempts[w][Len(attempts[w])].outcome = "exception"

\* C7 as stated: in submit_anaf, subscribe and send_notification alike a
\* failed outbound call ends the handler with the {error: message} body,
\* never with an HTTP error response.
C7_AllFailuresReturnErrorBody ==
    \A w \in Workers :
        UpstreamFailed(w) =>
            (uresp[w].status = 200 /\ "error" \in DOMAIN uresp[w])

\* C7 amended: submit_anaf and send_notification end a failed outbound
\* call with the {error: message} body (HTTP 200); subscribe ends it with
\* an HTTP 500 response whose detail is the failure message.
C7_FailuresByHandler ==
    \A w \in Workers :
        UpstreamFailed(w) =>
            IF ureq[w].op = "subscribe"
            THEN uresp[w].status = 500 /\ "detail" \in DOMAIN uresp[w]
            ELSE uresp[w].status = 200 /\ "error" \in DOMAIN uresp[w]

C7_Witness ==
    /\ \E w \in Workers : UpstreamFailed(w) /\ ureq[w].op = "subscribe"
    /\ \E w \in Workers : UpstreamFailed(w) /\ ureq[w].op = "submit_anaf"

\* C8: calculate_tva never fails (it answers 200) and returns
\* TVA = suma * cota_tva / 100 and Total = suma + suma * cota_tva / 100,
\* each rounded to 2 decimals: the returned number of hundredths is a
\* nearest one to the exact value, hence the exact value whenever that is
\* a whole number of hundredths, as for every integer suma and cota_tva;
\* (100, 19) gives 19.00 and 119.00, (0, 19) gives 0.00 and 0.00.
\* With suma = ns/ds and cota_tva = nc/dc the exact TVA is
\* ns*nc / (ds*dc) hundredths and the exact Total
\* (100*ns*dc + ns*nc) / (ds*dc) hundredths.
Dist(a, b) == IF a < b THEN b - a ELSE a - b

C8_TvaFormula ==
    tvaPc = "done" =>
        LET ns == tvaReq.suma.num
            ds == tvaReq.suma.den
            nc == tvaReq.cota_tva.num
            dc == tvaReq.cota_tva.den
        IN  /\ tvaResp.status = 200
            /\ 2 * Dist(tvaResp.TVA * ds * dc, ns * nc) <= ds * dc
            /\ 2 * Dist(tvaResp.Total * ds * dc, 100 * ns * dc + ns * nc)
                  <= ds * dc
            /\ (ds = 1 /\ dc = 1) =>
                  /\ tvaResp.TVA = ns * nc
                  /\ tvaResp.Total = 100 * ns + ns * nc
            /\ (tvaReq.suma = Decimal(100, 1) /\ tvaReq.cota_tva = Decimal(19, 1))
                  => (tvaResp.TVA = 1900 /\ tvaResp.Total = 11900)
            /\ (tvaReq.suma = Decimal(0, 1) /\ tvaReq.cota_tva = Decimal(19, 1))
                  => (tvaResp.TVA = 0 /\ tvaResp.Total = 0)

C8_Witness ==
    /\ tvaPc = "done"
    /\ tvaReq = [suma |-> Decimal(100, 1), cota_tva |-> Decimal(19, 1)]
    /\ tvaResp = [status |-> 200, TVA |-> 1900, Total |-> 11900]
====
